---- MODULE Spec2Model ----
(***************************************************************************)
(* Model of the Settings Synchronizer of                                   *)
(* client/src/contexts/SiteSettingsContext.tsx: the SiteSettingsProvider   *)
(* component, its mount effect (seeding, live subscription, stored gate    *)
(* flags) and the eight operations it exposes, running against a remote    *)
(* real-time document store that another client may write as well.         *)
(*                                                                         *)
(* An object is a function from the names of the fields it holds to their  *)
(* values; an object holding no field is an absent node of the remote      *)
(* tree (the store keeps no empty node).                                   *)
(***************************************************************************)
EXTENDS Integers, Sequences, FiniteSets, TLC

\* Number of operation invocations (and writes of another client) explored.
MaxOps == 2
\* Number of times the provider is mounted.
MaxMounts == 2

VARIABLES
  remote,          \* the remote document at path siteSettings
  settings,        \* the provider's React state (useState)
  sessionStorage,  \* session-scoped storage: siteUnlocked, authToken
  localStorage,    \* durable storage: adminLoggedIn
  mounted,         \* the provider is mounted (its effect has run, no cleanup yet)
  inst,            \* number of the provider instance (counts mounts)
  subscribed,      \* the watchData subscription is active
  pending,         \* snapshots pushed by the store, not yet handed to the callback
  initReads,       \* initializeSettings calls awaiting readData('siteSettings')
  initSeeds,       \* initializeSettings calls awaiting the seed writeData
  inflight,        \* mutation operations awaiting their writeData promise
  held,            \* the sub-objects of the render whose callbacks a running handler holds
  nops,            \* operations invoked so far
  last,            \* the operation that completed last, and its outcome
  cleanupThrew     \* an effect cleanup ended by throwing

vars == <<remote, settings, sessionStorage, localStorage, mounted, inst,
          subscribed, pending, initReads, initSeeds, inflight, held, nops, last,
          cleanupThrew>>

----------------------------------------------------------------------------
\* Values

\* What getItem and snapshot.val() give for a missing key or path.
Null == "<null>"

\* An object with no field: an absent node.
NoField == [f \in {} |-> FALSE]

SubNames == {"countdownSettings", "passwordProtection", "shippingSettings", "socialMedia"}

defaultSettings ==
  [countdownSettings |->
     [enabled |-> TRUE, targetDate |-> "now+7d", title |-> "Next Drop Coming Soon"],
   passwordProtection |->
     [enabled |-> TRUE, password |-> "password123"],
   shippingSettings |->
     [provinces |-> "shippingProvinces", freeShippingThreshold |-> 5000,
      minPrice |-> 300, maxPrice |-> 800],
   socialMedia |->
     [instagram |-> "https://instagram.com/drp", twitter |-> "https://twitter.com/drp",
      facebook |-> "https://facebook.com/drp", youtube |-> "https://youtube.com/drp",
      tiktok |-> "https://tiktok.com/@drp", enabled |-> TRUE],
   isUnlocked |-> FALSE,
   isAdmin |-> FALSE,
   isLoading |-> TRUE,
   currency |-> "DZD"]

\* The fields each sub-object has by its interface.
Fields(sub) == DOMAIN defaultSettings[sub]

\* The sub-objects the update operations read from the `settings` of their render.
UpdateSubs == {"countdownSettings", "shippingSettings", "socialMedia"}

\* What the callbacks created by a render of state s see of it.
Rendered(s) == [sub \in UpdateSubs |-> s[sub]]

\* Object spread {...S, ...P}: the fields of both, those of P overriding.
Spread(S, P) ==
  [f \in (DOMAIN S) \cup (DOMAIN P) |-> IF f \in DOMAIN P THEN P[f] ELSE S[f]]

----------------------------------------------------------------------------
\* The remote store

NoDoc == [s \in SubNames |-> NoField]

\* The object initializeSettings writes when no document exists.
SeedDoc == [s \in SubNames |-> defaultSettings[s]]

\* A document an earlier deployment left: the password was changed.
CustomDoc == [SeedDoc EXCEPT !["passwordProtection"] = [enabled |-> FALSE, password |-> "s3cret"]]

\* snapshot.exists() of the document.
DocExists(doc) == \E s \in SubNames : DOMAIN doc[s] # {}

\* writeData('siteSettings/<sub>', value): the sub-object is replaced.
WriteSub(doc, sub, value) == [doc EXCEPT ![sub] = value]

\* Mutant of WriteLeaf: the write goes to the path of the sub-object.
ReplacesSub(doc, sub, leaf) == [doc EXCEPT ![sub] = leaf]

\* writeData('siteSettings/<sub>/<field>', value): the leaf is set, its siblings kept.
WriteLeaf(doc, sub, leaf) == [doc EXCEPT ![sub] = Spread(@, leaf)]

\* The store pushes the new value to an active subscription when it changed.
Notify(q, old, new) == IF subscribed /\ new # old THEN Append(q, new) ELSE q

----------------------------------------------------------------------------
\* Local storage collaborators

GetItem(store, key) == IF key \in DOMAIN store THEN store[key] ELSE Null

\* Mutant of RemoveItem: the key is kept.
KeepItem(store, key) == store

SetItem(store, key, value) == Spread(store, [k \in {key} |-> value])

RemoveItem(store, key) == [k \in (DOMAIN store) \ {key} |-> store[k]]

----------------------------------------------------------------------------
Init ==
  /\ remote \in {NoDoc, CustomDoc}
  /\ settings = defaultSettings
  /\ sessionStorage = NoField
  /\ localStorage = NoField
  /\ mounted = FALSE
  /\ inst = 0
  /\ subscribed = FALSE
  /\ pending = <<>>
  /\ initReads = 0
  /\ initSeeds = 0
  /\ inflight = <<>>
  /\ held = Rendered(defaultSettings)
  /\ nops = 0
  /\ last = [op |-> "none", arg |-> Null, ok |-> TRUE, ret |-> "void",
             alerted |-> FALSE, logged |-> FALSE, inst |-> 0, n |-> 0]
  /\ cleanupThrew = FALSE

\* The record of a completed operation: its argument, whether its remote read or
\* write succeeded, what the caller got back ("true", "false", "resolved" or
\* "rejected"), whether alert() and console were called, the instance it ran in,
\* and how many operations had been invoked when it completed.
Outcome(op, arg, ok, ret, alerted, logged, i, n) ==
  [op |-> op, arg |-> arg, ok |-> ok, ret |-> ret, alerted |-> alerted,
   logged |-> logged, inst |-> i, n |-> n]

----------------------------------------------------------------------------
\* Mount effect

\* sessionStorage.getItem('siteUnlocked') === 'true'
StoredUnlockStatus == GetItem(sessionStorage, "siteUnlocked") = "true"

\* localStorage.getItem('adminLoggedIn') === 'true'
StoredAdminStatus == GetItem(localStorage, "adminLoggedIn") = "true"

\* What watchData returns: the function that cancels the subscription it
\* established (TRUE), or nothing when it established none (FALSE).
Unsubscribes == BOOLEAN

\* The effect body: initializeSettings is started, the subscription registered
\* (the store answers with the current value), the stored flags are read.
Mount ==
  /\ ~mounted
  /\ inst < MaxMounts
  /\ mounted' = TRUE
  /\ inst' = inst + 1
  /\ initReads' = initReads + 1
  /\ \E unsubscribe \in Unsubscribes :
       /\ subscribed' = unsubscribe
       /\ pending' = IF unsubscribe THEN <<remote>> ELSE <<>>
  /\ settings' = [settings EXCEPT
                    !.isUnlocked = IF StoredUnlockStatus THEN TRUE ELSE @,
                    !.isAdmin = IF StoredAdminStatus THEN TRUE ELSE @]
  /\ held' = Rendered(settings')
  /\ UNCHANGED <<cleanupThrew, remote, sessionStorage, localStorage, initSeeds, inflight, nops, last>>

\* Mutant of Cancelled: the cleanup does not call unsubscribe.
StillSubscribed(unsubscribe) == unsubscribe

\* The subscription after the cleanup: `unsubscribe()` when there is one to call.
Cancelled(unsubscribe) == FALSE

\* The cleanup calls `unsubscribe` only when it is a function, so it never calls
\* the nothing that watchData returned without a subscription.
CleanupThrows(unsubscribe) == FALSE

\* The effect's cleanup; the next instance is constructed with useState(defaultSettings).
Unmount ==
  /\ mounted
  /\ mounted' = FALSE
  /\ subscribed' = Cancelled(subscribed)
  /\ pending' = IF subscribed' THEN pending ELSE <<>>
  /\ cleanupThrew' = (cleanupThrew \/ CleanupThrows(subscribed))
  /\ settings' = defaultSettings
  /\ held' = Rendered(defaultSettings)
  /\ UNCHANGED <<remote, sessionStorage, localStorage, inst, initReads, initSeeds,
                 inflight, nops, last>>

\* The cleanup of the instance that is gone runs once more: unsubscribe is called
\* on the subscription it has cancelled already, which does nothing.
CleanupAgain ==
  /\ ~mounted
  /\ inst > 0
  /\ subscribed' = Cancelled(subscribed)
  /\ pending' = IF subscribed' THEN pending ELSE <<>>
  /\ cleanupThrew' = (cleanupThrew \/ CleanupThrows(TRUE))
  /\ UNCHANGED <<remote, settings, sessionStorage, localStorage, mounted, inst,
                 initReads, initSeeds, inflight, held, nops, last>>

----------------------------------------------------------------------------
\* initializeSettings

\* Mutant of NeedsSeed: the existence test is dropped.
SeedAlways(doc) == TRUE

\* `if (!snapshot.exists())`: the read found no document, the defaults are written.
NeedsSeed(doc) == ~DocExists(doc)

\* `await readData('siteSettings')` settles; a rejection ends in the catch, which logs.
InitRead ==
  /\ initReads > 0
  /\ \E ok \in BOOLEAN :
       initSeeds' = IF ok /\ NeedsSeed(remote) THEN initSeeds + 1 ELSE initSeeds
  /\ initReads' = initReads - 1
  /\ UNCHANGED <<cleanupThrew, remote, settings, sessionStorage, localStorage, mounted, inst,
                 subscribed, pending, inflight, held, nops, last>>

\* `await writeData('siteSettings', {...})` settles: the document is replaced by the
\* defaults, or the write is rejected and the catch logs.
InitSeed ==
  /\ initSeeds > 0
  /\ \E ok \in BOOLEAN :
       remote' = IF ok THEN SeedDoc ELSE remote
  /\ pending' = Notify(pending, remote, remote')
  /\ initSeeds' = initSeeds - 1
  /\ UNCHANGED <<cleanupThrew, settings, sessionStorage, localStorage, mounted, inst, subscribed,
                 initReads, inflight, held, nops, last>>

----------------------------------------------------------------------------
\* The watchData callback

\* Mutant of OrDefault: the fallback is forgotten.
NoFallback(value, dflt) == value

\* `data.<sub> || defaultSettings.<sub>`
OrDefault(value, dflt) == IF DOMAIN value = {} THEN dflt ELSE value

\* Mutant of OnData: the callback builds the state from the defaults, not from prev.
FromDefaults(prev, data) ==
  [defaultSettings EXCEPT
     !.countdownSettings = OrDefault(data.countdownSettings, @),
     !.passwordProtection = OrDefault(data.passwordProtection, @),
     !.shippingSettings = OrDefault(data.shippingSettings, @),
     !.socialMedia = OrDefault(data.socialMedia, @),
     !.isLoading = FALSE]

\* Mutant of OnData: the callback does not call setSettings.
Ignored(prev, data) == prev

\* The callback's setSettings: data is null when no document exists.
OnData(prev, data) ==
  IF DocExists(data)
  THEN [prev EXCEPT
          !.countdownSettings =
             OrDefault(data.countdownSettings, defaultSettings.countdownSettings),
          !.passwordProtection =
             OrDefault(data.passwordProtection, defaultSettings.passwordProtection),
          !.shippingSettings =
             OrDefault(data.shippingSettings, defaultSettings.shippingSettings),
          !.socialMedia =
             OrDefault(data.socialMedia, defaultSettings.socialMedia),
          !.isLoading = FALSE]
  ELSE [prev EXCEPT !.isLoading = FALSE]

\* The store hands the oldest pushed snapshot to the callback.
Deliver ==
  /\ subscribed
  /\ pending # <<>>
  /\ settings' = OnData(settings, Head(pending))
  /\ pending' = Tail(pending)
  /\ UNCHANGED <<cleanupThrew, remote, sessionStorage, localStorage, mounted, inst, subscribed,
                 initReads, initSeeds, inflight, held, nops, last>>

----------------------------------------------------------------------------
\* unlockSite

Passwords == {"password123", "s3cret", ""}

\* Mutant of CorrectPassword: the locally cached copy is compared.
CachedPassword == GetItem(settings.passwordProtection, "password")

\* snapshot.val() of siteSettings/passwordProtection/password
CorrectPassword == GetItem(remote.passwordProtection, "password")

\* Mutant of PasswordMatches: a rejected read unlocks.
FailsOpen(password, correctPassword, readOk) ==
  ~readOk \/ password = correctPassword

\* The try block's test; a rejected read lands in the catch.
PasswordMatches(password, correctPassword, readOk) ==
  readOk /\ password = correctPassword

\* Mutant of UnlockedStorage: nothing is stored.
NothingStored(store, match) == store

\* Session storage after the continuation.
UnlockedStorage(store, match) ==
  IF match
  THEN SetItem(SetItem(store, "siteUnlocked", "true"), "authToken", "token")
  ELSE store

----------------------------------------------------------------------------
\* The asynchronous operations: the call up to its await, then the continuation

\* The operation is invoked and its readData or writeData reaches the store (or is
\* rejected). S is the sub-object the operation read from its render, P its
\* argument, value what it read from the store or computed to write.
Call(op, sub, S, P, value, ok, written) ==
  /\ mounted
  /\ nops < MaxOps
  /\ remote' = IF ok THEN written ELSE remote
  /\ pending' = Notify(pending, remote, remote')
  /\ inflight' = Append(inflight, [op |-> op, sub |-> sub, S |-> S, P |-> P,
                                   value |-> value, ok |-> ok, inst |-> inst])
  /\ nops' = nops + 1
  /\ UNCHANGED <<cleanupThrew, settings, sessionStorage, localStorage, mounted, inst, subscribed,
                 initReads, initSeeds, last>>

TogglePasswordProtection ==
  \E enabled \in BOOLEAN, ok \in BOOLEAN :
    LET leaf == [enabled |-> enabled] IN
    /\ Call("togglePasswordProtection", "passwordProtection", NoField, leaf, leaf, ok,
            WriteLeaf(remote, "passwordProtection", leaf))
    /\ UNCHANGED held

\* The read of the password reaches the store; nothing is written.
UnlockSite ==
  \E password \in Passwords, readOk \in BOOLEAN :
    /\ Call("unlockSite", "passwordProtection", NoField, password,
            IF readOk THEN CorrectPassword ELSE Null, readOk, remote)
    /\ UNCHANGED held

NewPasswords == {"s3cret"}

ChangePassword ==
  \E newPassword \in NewPasswords, ok \in BOOLEAN :
    LET leaf == [password |-> newPassword] IN
    /\ Call("changePassword", "passwordProtection", NoField, leaf, leaf, ok,
            WriteLeaf(remote, "passwordProtection", leaf))
    /\ UNCHANGED held

\* Mutant of UpdatedSettings: only the partial is kept.
OnlyPartial(S, P) == P

\* `{...settings.<sub>, ...newSettings}`
UpdatedSettings(S, P) == Spread(S, P)

\* The partial settings the callers pass.
CountdownPartials == {[enabled |-> FALSE]}
ShippingPartials == {[minPrice |-> 400], [maxPrice |-> 900]}
SocialPartials == {[enabled |-> FALSE]}

\* `settings` in an update operation is the state of the render that created the
\* callback: the latest one for a handler that starts now (fresh), the one a running
\* handler started with when it calls again after an await.
Closure(fresh) == IF fresh THEN Rendered(settings) ELSE held

UpdateCountdownSettings ==
  \E newSettings \in CountdownPartials, ok \in BOOLEAN, fresh \in BOOLEAN :
    LET updatedSettings == UpdatedSettings(Closure(fresh).countdownSettings, newSettings)
    IN /\ Call("updateCountdownSettings", "countdownSettings",
               Closure(fresh).countdownSettings, newSettings, updatedSettings, ok,
               WriteSub(remote, "countdownSettings", updatedSettings))
       /\ held' = Closure(fresh)

UpdateShippingSettings ==
  \E newSettings \in ShippingPartials, ok \in BOOLEAN, fresh \in BOOLEAN :
    LET updatedSettings == UpdatedSettings(Closure(fresh).shippingSettings, newSettings)
    IN /\ Call("updateShippingSettings", "shippingSettings",
               Closure(fresh).shippingSettings, newSettings, updatedSettings, ok,
               WriteSub(remote, "shippingSettings", updatedSettings))
       /\ held' = Closure(fresh)

UpdateSocialMediaSettings ==
  \E newSettings \in SocialPartials, ok \in BOOLEAN, fresh \in BOOLEAN :
    LET updatedSettings == UpdatedSettings(Closure(fresh).socialMedia, newSettings)
    IN /\ Call("updateSocialMediaSettings", "socialMedia",
               Closure(fresh).socialMedia, newSettings, updatedSettings, ok,
               WriteSub(remote, "socialMedia", updatedSettings))
       /\ held' = Closure(fresh)

\* The operations whose await is inside a try block.
Guarded == {"togglePasswordProtection", "changePassword"}

\* The operations that write a whole merged sub-object.
UpdateOps == {"updateCountdownSettings", "updateShippingSettings",
              "updateSocialMediaSettings"}

\* Mutant of LocalUpdate: an update operation spreads its partial over the state
\* at the time of the setSettings.
FieldMerge(prev, o) ==
  IF o.op = "unlockSite" THEN [prev EXCEPT !.isUnlocked = TRUE]
  ELSE [prev EXCEPT ![o.sub] = Spread(@, o.P)]

\* The setSettings after the await.
LocalUpdate(prev, o) ==
  IF o.op = "unlockSite" THEN [prev EXCEPT !.isUnlocked = TRUE]
  ELSE IF o.op \in Guarded
  THEN [prev EXCEPT ![o.sub] = Spread(@, o.P)]
  ELSE [prev EXCEPT ![o.sub] = o.value]

\* The continuation reaches its setSettings: the write succeeded, or the password
\* read matches.
Succeeds(o) ==
  IF o.op = "unlockSite" THEN PasswordMatches(o.P, o.value, o.ok) ELSE o.ok

\* Mutant of Settled: the local state is updated whether or not the write succeeded.
SettledOptimistic(prev, o, alive) == IF alive THEN LocalUpdate(prev, o) ELSE prev

\* The state after the continuation: setSettings runs when the operation succeeded,
\* and does nothing once the instance that made the call is gone.
Settled(prev, o, alive) == IF Succeeds(o) /\ alive THEN LocalUpdate(prev, o) ELSE prev

\* How the promise the caller holds ends.
Completion(o) ==
  IF o.op = "unlockSite" THEN (IF Succeeds(o) THEN "true" ELSE "false")
  ELSE IF o.ok \/ o.op \in Guarded THEN "resolved" ELSE "rejected"

\* alert() is called: on a caught failure, and by changePassword on success.
Alerts(o) == (o.op \in Guarded /\ ~o.ok) \/ (o.op = "changePassword" /\ o.ok)

\* console.log or console.error is called.
Logs(o) == o.op \in Guarded \/ (o.op = "unlockSite" /\ ~o.ok)

\* The oldest awaited read or write settles and its operation continues.
Settle ==
  /\ inflight # <<>>
  /\ LET o == Head(inflight) IN
       /\ settings' = Settled(settings, o, mounted /\ o.inst = inst)
       /\ sessionStorage' = IF o.op = "unlockSite"
                            THEN UnlockedStorage(sessionStorage, Succeeds(o))
                            ELSE sessionStorage
       /\ last' = Outcome(o.op, o.P, o.ok, Completion(o), Alerts(o), Logs(o), o.inst,
                          nops)
  /\ inflight' = Tail(inflight)
  /\ UNCHANGED <<cleanupThrew, remote, localStorage, mounted, inst, subscribed,
                 pending, initReads, initSeeds, held, nops>>

----------------------------------------------------------------------------
\* adminLogin, adminLogout

Emails == {"admin@example.com", "x"}
AdminPasswords == {"admin123", "y"}

\* Mutant of AdminMatches: the password is not compared.
EmailOnly(email, password) == email = "admin@example.com"

AdminMatches(email, password) == email = "admin@example.com" /\ password = "admin123"

AdminLogin ==
  /\ mounted
  /\ nops < MaxOps
  /\ \E email \in Emails, password \in AdminPasswords :
       LET match == AdminMatches(email, password) IN
       /\ localStorage' = IF match THEN SetItem(localStorage, "adminLoggedIn", "true")
                          ELSE localStorage
       /\ settings' = IF match THEN [settings EXCEPT !.isAdmin = TRUE] ELSE settings
       /\ last' = Outcome("adminLogin", <<email, password>>, TRUE,
                          IF match THEN "true" ELSE "false", FALSE, FALSE, inst,
                          nops + 1)
  /\ nops' = nops + 1
  /\ UNCHANGED <<cleanupThrew, remote, sessionStorage, mounted, inst, subscribed, pending,
                 initReads, initSeeds, inflight, held>>

AdminLogout ==
  /\ mounted
  /\ nops < MaxOps
  /\ localStorage' = RemoveItem(localStorage, "adminLoggedIn")
  /\ settings' = [settings EXCEPT !.isAdmin = FALSE]
  /\ last' = Outcome("adminLogout", Null, TRUE, "void", FALSE, FALSE, inst, nops + 1)
  /\ nops' = nops + 1
  /\ UNCHANGED <<cleanupThrew, remote, sessionStorage, mounted, inst, subscribed, pending,
                 initReads, initSeeds, inflight, held>>

----------------------------------------------------------------------------
\* Another client of the same store

\* A second, already initialised instance of the provider runs changePassword or
\* updateShippingSettings: the same writes, on the document its own seeding left.
OtherClient ==
  /\ DocExists(remote)
  /\ nops < MaxOps
  /\ \E op \in {"changePassword", "updateShippingSettings"} :
       remote' = IF op = "changePassword"
                 THEN WriteLeaf(remote, "passwordProtection", [password |-> "0ther"])
                 ELSE WriteSub(remote, "shippingSettings",
                               UpdatedSettings(defaultSettings.shippingSettings,
                                               [freeShippingThreshold |-> 6000]))
  /\ pending' = Notify(pending, remote, remote')
  /\ nops' = nops + 1
  /\ UNCHANGED <<cleanupThrew, settings, sessionStorage, localStorage, mounted, inst, subscribed,
                 initReads, initSeeds, inflight, held, last>>

----------------------------------------------------------------------------
Next ==
  \/ Mount
  \/ Unmount
  \/ CleanupAgain
  \/ InitRead
  \/ InitSeed
  \/ Deliver
  \/ UnlockSite
  \/ TogglePasswordProtection
  \/ ChangePassword
  \/ UpdateCountdownSettings
  \/ UpdateShippingSettings
  \/ UpdateSocialMediaSettings
  \/ Settle
  \/ AdminLogin
  \/ AdminLogout
  \/ OtherClient

Spec == Init /\ [][Next]_vars

----------------------------------------------------------------------------
\* Properties

\* The operation whose call has just been made.
Called == inflight'[Len(inflight')]

\* The step is the call of one of the operations ops.
CallOf(ops) == Len(inflight') = Len(inflight) + 1 /\ Called.op \in ops

\* The step is the continuation of one of the operations ops.
SettleOf(ops) ==
  /\ inflight # <<>>
  /\ Len(inflight') = Len(inflight) - 1
  /\ Head(inflight).op \in ops

\* The step is a run of the synchronous operation op (adminLogin, adminLogout).
RunOf(op) == nops' = nops + 1 /\ last'.op = op /\ last'.n = nops'

\* The password stored remotely, Null when the path holds nothing.
RemotePassword == GetItem(remote.passwordProtection, "password")

\* C1: unlockSite(p) reads the password the store holds at
\* siteSettings/passwordProtection/password, and returns true exactly when that
\* read succeeded and p equals the value read; every other input, the empty
\* string and a stale locally cached password included, gets false.
UnlockTrueIffRemotePassword ==
  [][/\ CallOf({"unlockSite"}) => (Called.ok => Called.value = RemotePassword)
     /\ SettleOf({"unlockSite"}) =>
          (last'.ret = "true"
             <=> (Head(inflight).ok /\ Head(inflight).P = Head(inflight).value))
    ]_vars

\* C1 witness: unlockSite was called with the locally cached password while the
\* store held another one, the read succeeded, and it returned false.
UnlockStaleCacheRefused ==
  /\ mounted /\ inflight = <<>>
  /\ last.op = "unlockSite" /\ last.ok /\ last.ret = "false" /\ last.inst = inst
  /\ last.arg = GetItem(settings.passwordProtection, "password")
  /\ RemotePassword \notin {Null, last.arg}
  /\ nops = 1

\* C2: an initialization whose read finds a settings document schedules no seed
\* write and leaves the remote document as it is.
SeedingIdempotent ==
  [][(InitRead /\ DocExists(remote)) => (initSeeds' = initSeeds /\ remote' = remote)]_vars

\* C2 witness: the provider was initialized twice against the document an earlier
\* deployment left, nothing else wrote, and the document is still that one.
InitializedTwiceDocKept ==
  /\ inst = 2 /\ mounted
  /\ initReads = 0 /\ initSeeds = 0
  /\ nops = 0
  /\ remote = CustomDoc

\* C3: when the seed write is applied, no settings document exists.
SeedNeverOverwrites ==
  [][(InitSeed /\ remote' = SeedDoc) => ~DocExists(remote)]_vars

\* C4: the merged local view always holds every field of the four sub-objects.
FullyPopulated ==
  mounted => \A sub \in SubNames : DOMAIN settings[sub] = Fields(sub)

\* C5: a live update carrying an existing document leaves each local sub-object
\* equal to the payload's sub-object, or to the fixed default where the payload
\* omits it.
LiveUpdateMerge ==
  [][(Deliver /\ DocExists(Head(pending))) =>
       \A sub \in SubNames :
         settings'[sub] = IF DOMAIN Head(pending)[sub] = {}
                          THEN defaultSettings[sub]
                          ELSE Head(pending)[sub]]_vars

\* C5 witness: every pushed snapshot was applied, the last one an existing document
\* without shippingSettings: the local shipping settings are the default and the
\* local password protection is the payload's.
LiveUpdateWithOmittedSub ==
  /\ mounted /\ subscribed /\ pending = <<>>
  /\ ~settings.isLoading
  /\ DocExists(remote)
  /\ DOMAIN remote.shippingSettings = {}
  /\ DOMAIN remote.passwordProtection # {}
  /\ settings.shippingSettings = defaultSettings.shippingSettings
  /\ settings.passwordProtection = remote.passwordProtection

\* R holds the fields of S and of P, those of P with P's value, the others with S's.
Overrides(R, S, P) ==
  /\ DOMAIN R = (DOMAIN S) \cup (DOMAIN P)
  /\ \A f \in DOMAIN P : R[f] = P[f]
  /\ \A f \in (DOMAIN S) \ (DOMAIN P) : R[f] = S[f]

WriteFailureCaught ==
  (last.op \in Guarded \cup UpdateOps /\ ~last.ok) =>
    (last.ret = "resolved" /\ last.alerted /\ last.logged)

\* C8: togglePasswordProtection leaves the local state as it is when it is called
\* and when its write fails (and then alerts); when the write succeeds its
\* continuation sets the local passwordProtection.enabled to the written value and
\* changes nothing else, the local password included.
ToggleFollowsWrite ==
  [][/\ CallOf({"togglePasswordProtection"}) => settings' = settings
     /\ SettleOf({"togglePasswordProtection"}) =>
          LET o == Head(inflight) IN
          /\ ~o.ok => (settings' = settings /\ last'.alerted)
          /\ (o.ok /\ mounted /\ o.inst = inst) =>
               /\ settings'.passwordProtection.enabled = o.P.enabled
               /\ GetItem(settings'.passwordProtection, "password")
                    = GetItem(settings.passwordProtection, "password")
               /\ \A k \in (DOMAIN settings) \ {"passwordProtection"} :
                    settings'[k] = settings[k]
    ]_vars

\* C8 witness: a togglePasswordProtection whose write failed has completed: the
\* user was alerted and the local flag still is the remote one.
ToggleFailedAndAlerted ==
  /\ mounted /\ inflight = <<>> /\ pending = <<>>
  /\ last.op = "togglePasswordProtection" /\ ~last.ok /\ last.alerted
  /\ last.inst = inst
  /\ "enabled" \in DOMAIN settings.passwordProtection
  /\ "enabled" \in DOMAIN remote.passwordProtection
  /\ last.arg.enabled # settings.passwordProtection.enabled
  /\ remote.passwordProtection.enabled = settings.passwordProtection.enabled

\* C9: an unlockSite whose password does not match what it read, or whose read
\* fails, returns false, and neither its call nor its continuation changes the
\* local state (isUnlocked included) or session storage; it never ends otherwise
\* than returning true or false.
UnlockFailsClosed ==
  [][/\ CallOf({"unlockSite"}) =>
          (settings' = settings /\ sessionStorage' = sessionStorage)
     /\ SettleOf({"unlockSite"}) =>
          /\ last'.ret \in {"true", "false"}
          /\ (~Head(inflight).ok \/ Head(inflight).P # Head(inflight).value) =>
               (last'.ret = "false" /\ settings' = settings
                  /\ sessionStorage' = sessionStorage)
    ]_vars

\* C9 witness: unlockSite was called with the right password, the read failed, it
\* returned false, and the site is locked with nothing in session storage.
UnlockReadFailedStaysLocked ==
  /\ mounted /\ inflight = <<>>
  /\ last.op = "unlockSite" /\ ~last.ok /\ last.ret = "false" /\ last.logged
  /\ last.arg = RemotePassword
  /\ ~settings.isUnlocked
  /\ sessionStorage = NoField

\* C10: once an unlockSite has succeeded (it alone writes the stored siteUnlocked
\* flag, and nothing removes it), the mounted provider has isUnlocked true in
\* every later state of the session.
UnlockedStaysUnlocked ==
  (mounted /\ GetItem(sessionStorage, "siteUnlocked") = "true") => settings.isUnlocked

\* The durable flag adminLoggedIn is stored.
AdminFlag(store) == GetItem(store, "adminLoggedIn") = "true"

\* C11: adminLogin called with 'admin@example.com' and 'admin123' returns true,
\* sets isAdmin and stores the durable flag; called with any other pair it returns
\* false and leaves isAdmin and the durable storage as they were.
AdminLoginIffCredentials ==
  [][RunOf("adminLogin") =>
       IF last'.arg = <<"admin@example.com", "admin123">>
       THEN last'.ret = "true" /\ settings'.isAdmin /\ AdminFlag(localStorage')
       ELSE /\ last'.ret = "false"
            /\ settings'.isAdmin = settings.isAdmin
            /\ localStorage' = localStorage
    ]_vars

\* C11 witness: a login with the right email and a wrong password failed while the
\* admin was logged in, and the admin still is.
FailedLoginKeepsAdmin ==
  /\ mounted /\ last.inst = inst
  /\ last.op = "adminLogin" /\ last.ret = "false"
  /\ last.arg = <<"admin@example.com", "y">>
  /\ settings.isAdmin
  /\ AdminFlag(localStorage)

\* C12: adminLogout leaves isAdmin false and the durable flag absent; only
\* adminLogout removes the flag; and a provider that starts has isAdmin true
\* exactly when the flag is stored.
LogoutClearsAdmin ==
  [][/\ RunOf("adminLogout") =>
          (~settings'.isAdmin /\ "adminLoggedIn" \notin DOMAIN localStorage')
     /\ (AdminFlag(localStorage) /\ ~RunOf("adminLogout")) => AdminFlag(localStorage')
     /\ inst' = inst + 1 => (settings'.isAdmin <=> AdminFlag(localStorage))
    ]_vars

\* C12 witness: adminLogout ran in the first instance as the second operation, and
\* the second instance has started with isAdmin false.
LoggedOutThenFreshStart ==
  /\ mounted /\ inst = 2
  /\ last.op = "adminLogout" /\ last.inst = 1
  /\ nops = 2
  /\ ~settings.isAdmin
  /\ "adminLoggedIn" \notin DOMAIN localStorage

\* An update operation on sub-object sub awaits its write.
Awaiting(sub) ==
  \E i \in 1..Len(inflight) : inflight[i].op \in UpdateOps /\ inflight[i].sub = sub

\* C13: a live update applied while an update operation on the same sub-object
\* awaits its write sets the local sub-object to the whole pushed one (the default
\* where the payload omits it), and the continuation of the operation sets it to
\* the whole sub-object the operation wrote, whatever was applied in between; the
\* operation resolves.
ConcurrentUpdatesWhole ==
  [][/\ (Deliver /\ DocExists(Head(pending))) =>
          \A sub \in UpdateSubs :
            Awaiting(sub) =>
              settings'[sub] = IF DOMAIN Head(pending)[sub] = {}
                               THEN defaultSettings[sub]
                               ELSE Head(pending)[sub]
     /\ (SettleOf(UpdateOps) /\ Head(inflight).ok /\ mounted
           /\ Head(inflight).inst = inst) =>
          /\ settings'[Head(inflight).sub] = Head(inflight).value
          /\ last'.ret = "resolved"
    ]_vars

\* C13 witness: updateShippingSettings({minPrice: 400}) wrote, another client then
\* wrote its shipping settings, both pushes were applied while the operation was
\* awaiting, and its continuation ran last: the local shipping settings are the
\* whole sub-object the operation wrote.
LocalUpdateAppliedLast ==
  /\ mounted /\ subscribed /\ inflight = <<>> /\ pending = <<>>
  /\ last.op = "updateShippingSettings" /\ last.ok /\ last.inst = inst
  /\ last.arg = [minPrice |-> 400]
  /\ remote.shippingSettings =
       [provinces |-> "shippingProvinces", freeShippingThreshold |-> 6000,
        minPrice |-> 300, maxPrice |-> 800]
  /\ settings.shippingSettings =
       [provinces |-> "shippingProvinces", freeShippingThreshold |-> 5000,
        minPrice |-> 400, maxPrice |-> 800]

\* C14: isLoading is true in the initial state and when an instance starts; it
\* becomes false only when a subscription callback is applied, and every applied
\* callback, with a document or without one, leaves it false; once false it stays
\* false as long as the instance lives.
LoadingUntilFirstCallback ==
  /\ settings.isLoading
  /\ [][/\ inst' = inst + 1 => settings'.isLoading
        /\ Deliver => ~settings'.isLoading
        /\ (settings.isLoading /\ ~settings'.isLoading) => Deliver
        /\ (~settings.isLoading /\ settings'.isLoading) => (mounted /\ ~mounted')
       ]_vars

\* C14 witness: the first callback reported that no document exists, an operation
\* has completed since, and isLoading is false.
LoadedWithoutDocument ==
  /\ mounted /\ subscribed /\ pending = <<>>
  /\ ~DocExists(remote)
  /\ last.op # "none" /\ last.inst = inst
  /\ ~settings.isLoading

\* C15: an update operation called after the previous operation of the instance,
\* a successful update of the same sub-object on other fields, has completed, with
\* the local and remote sub-object as that one left them, writes a sub-object that
\* still holds the fields the first one set.
SequentialUpdatesCompose ==
  [][(/\ CallOf(UpdateOps) /\ Called.ok
      /\ mounted /\ inflight = <<>> /\ pending = <<>>
      /\ last.op = Called.op /\ last.ok /\ last.inst = inst
      /\ (DOMAIN last.arg) \cap (DOMAIN Called.P) = {}
      /\ remote[Called.sub] = settings[Called.sub]
      /\ \A f \in DOMAIN last.arg : settings[Called.sub][f] = last.arg[f])
     => \A f \in DOMAIN last.arg : remote'[Called.sub][f] = last.arg[f]
    ]_vars

\* The local view a subscriber should hold of document doc.
Mirror(doc) ==
  [sub \in SubNames |-> IF DOMAIN doc[sub] = {} THEN defaultSettings[sub] ELSE doc[sub]]

\* C16: in every quiescent state (the subscription is active, the initialization
\* and every operation have completed, every pushed snapshot was applied) each
\* local sub-object equals the remote one, or the default where it is absent.
QuiescentConverged ==
  (/\ mounted /\ subscribed
   /\ pending = <<>> /\ inflight = <<>>
   /\ initReads = 0 /\ initSeeds = 0)
  => \A sub \in SubNames : settings[sub] = Mirror(remote)[sub]

\* The operations that await a remote read or write.
AsyncOps == {"unlockSite"} \cup Guarded \cup UpdateOps

\* An instance starts, or is torn down.
Starts == inst' = inst + 1
Ends == mounted /\ ~mounted'

\* C17: live updates, the calls of all operations and the continuations of
\* togglePasswordProtection, changePassword and the update operations leave
\* isUnlocked and isAdmin unchanged; unlockSite leaves isAdmin and can only set
\* isUnlocked; adminLogin leaves isUnlocked and can only set isAdmin; adminLogout
\* leaves isUnlocked and clears isAdmin; and within an instance nothing else
\* changes either flag.
GateFlagsFrame ==
  [][/\ (Deliver \/ CallOf(AsyncOps) \/ SettleOf(Guarded \cup UpdateOps)) =>
          /\ settings'.isUnlocked = settings.isUnlocked
          /\ settings'.isAdmin = settings.isAdmin
     /\ SettleOf({"unlockSite"}) =>
          /\ settings'.isAdmin = settings.isAdmin
          /\ settings.isUnlocked => settings'.isUnlocked
     /\ RunOf("adminLogin") =>
          /\ settings'.isUnlocked = settings.isUnlocked
          /\ settings.isAdmin => settings'.isAdmin
     /\ RunOf("adminLogout") =>
          /\ settings'.isUnlocked = settings.isUnlocked
          /\ ~settings'.isAdmin
     /\ settings'.isUnlocked # settings.isUnlocked =>
          (SettleOf({"unlockSite"}) \/ Starts \/ Ends)
     /\ settings'.isAdmin # settings.isAdmin =>
          (RunOf("adminLogin") \/ RunOf("adminLogout") \/ Starts \/ Ends)
    ]_vars

\* C17 witness: unlockSite and adminLogin completed in the first instance, the
\* second instance started with both flags stored, and the live update carrying
\* the document was applied: both flags are still true.
FlagsKeptByLiveUpdate ==
  /\ mounted /\ inst = 2 /\ subscribed /\ pending = <<>>
  /\ nops = 2 /\ inflight = <<>> /\ last.inst = 1
  /\ DocExists(remote)
  /\ ~settings.isLoading
  /\ settings.isUnlocked /\ settings.isAdmin

\* Objects a and b agree on field f: both lack it, or both hold the same value.
SameField(a, b, f) ==
  /\ (f \in DOMAIN a) <=> (f \in DOMAIN b)
  /\ f \in DOMAIN a => a[f] = b[f]

\* The sub-objects of the remote document the step changes.
Written == {sub \in SubNames : remote'[sub] # remote[sub]}

\* C18: the call of togglePasswordProtection changes remotely at most the leaf
\* passwordProtection/enabled, that of changePassword at most
\* passwordProtection/password, that of an update operation at most its own
\* sub-object; unlockSite, every continuation, adminLogin and adminLogout change
\* nothing remotely, and the last two start no remote read or write either; only
\* the seed write changes more than one sub-object in one write.
RemotePathsFrame ==
  [][/\ CallOf({"togglePasswordProtection"}) =>
          /\ Written \subseteq {"passwordProtection"}
          /\ SameField(remote'.passwordProtection, remote.passwordProtection, "password")
     /\ CallOf({"changePassword"}) =>
          /\ Written \subseteq {"passwordProtection"}
          /\ SameField(remote'.passwordProtection, remote.passwordProtection, "enabled")
     /\ CallOf(UpdateOps) => Written \subseteq {Called.sub}
     /\ (CallOf({"unlockSite"}) \/ SettleOf(AsyncOps)) => Written = {}
     /\ (RunOf("adminLogin") \/ RunOf("adminLogout")) =>
          /\ Written = {}
          /\ pending' = pending
          /\ Len(inflight') = Len(inflight)
     /\ Cardinality(Written) > 1 => initSeeds' = initSeeds - 1
    ]_vars

\* C18 witness: togglePasswordProtection(true) has completed on the document whose
\* protection was disabled: remotely the flag is set, the password and the three
\* other sub-objects are as they were.
ToggleWroteOnlyEnabled ==
  /\ mounted /\ inflight = <<>> /\ nops = 1
  /\ last.op = "togglePasswordProtection" /\ last.ok
  /\ remote = [CustomDoc EXCEPT !.passwordProtection.enabled = TRUE]

\* The session flag siteUnlocked is stored.
UnlockFlag(store) == GetItem(store, "siteUnlocked") = "true"

\* The flags of the mounted instance agree with the two stores.
FlagsAgree(s, session, durable) ==
  /\ s.isAdmin <=> AdminFlag(durable)
  /\ s.isUnlocked <=> UnlockFlag(session)

\* C19: an instance starts with its gate flags agreeing with the two stores, and
\* every step keeps them agreeing, except the continuation of an unlockSite that an
\* earlier instance called (a write to the stores that is not the instance's own).
FlagsAgreeWithStorage ==
  [][/\ Starts => FlagsAgree(settings', sessionStorage', localStorage')
     /\ (/\ mounted /\ mounted'
         /\ FlagsAgree(settings, sessionStorage, localStorage)
         /\ ~(SettleOf({"unlockSite"}) /\ Head(inflight).inst # inst))
        => FlagsAgree(settings', sessionStorage', localStorage')
    ]_vars

\* C19 witness: unlockSite and adminLogin have succeeded in the first instance: both
\* flags are true and both stores hold their flag.
UnlockedAdminStored ==
  /\ mounted /\ inst = 1 /\ nops = 2 /\ inflight = <<>>
  /\ last.op = "adminLogin" /\ last.ret = "true"
  /\ settings.isUnlocked /\ settings.isAdmin
  /\ UnlockFlag(sessionStorage) /\ AdminFlag(localStorage)

====
